---- MODULE Spec2Model ----
(***************************************************************************)
(* Store API (FastAPI + MongoDB): the products collection, the pydantic    *)
(* schemas, the crud functions and the HTTP routes of                      *)
(* src/store/STORE_API_CADUDISNER.py.                                      *)
(*                                                                         *)
(* Python values: an Optional value is a sequence of length <= 1, None is  *)
(* <<>> and a value v is <<v>>.  A JSON body and a MongoDB document are    *)
(* functions from field names to such values; a key that is not sent is    *)
(* not in the DOMAIN.                                                      *)
(*                                                                         *)
(* Spec      every request runs to completion before the next one starts   *)
(*           (one action per route handler).                               *)
(* SpecConc  two requests in flight; every await of a crud function is a   *)
(*           step of its own, so requests interleave at the awaits.        *)
(***************************************************************************)
EXTENDS Integers, Sequences, FiniteSets, TLC

VARIABLES db_products, oid_counter, response, tasks

vars == <<db_products, oid_counter, response, tasks>>

\* The number of ObjectIds the driver hands out in a run.
MaxProducts == 2

None == <<>>

Fields == {"name", "description", "price", "in_stock"}

\* str(ObjectId): the 24 hex digits of the n-th ObjectId the driver generates.
OidHex ==
  <<"64b000000000000000000001", "64b000000000000000000002",
    "64b000000000000000000003", "64b000000000000000000004",
    "64b000000000000000000005", "64b000000000000000000006">>

\* Path parameters that are not 24 hex digits.
Malformed == {"not-an-oid"}

\* The ids a request may carry: every id handed out, one well-formed id that
\* was never handed out, and the malformed ones.
IdStrings == {OidHex[n] : n \in 1..(MaxProducts + 1)} \cup Malformed

\* ObjectId(id): <<oid>>, or <<>> where bson raises InvalidId.
ObjectId(id) ==
  IF \E n \in DOMAIN OidHex : OidHex[n] = id
    THEN <<CHOOSE n \in DOMAIN OidHex : OidHex[n] = id>>
    ELSE None

\* str(product["_id"])
str(oid) == OidHex[oid]

\* dict.get(key): the value, or None when the key is missing.
get(d, key) == IF key \in DOMAIN d THEN d[key] ELSE None

(***************************************************************************)
(* app/schemas.py                                                          *)
(***************************************************************************)

\* ProductSchema accepts a body: name and price are required and not null,
\* price > 0, in_stock is a bool when sent, description may be null.
ProductSchema(body) ==
  /\ "name" \in DOMAIN body /\ body["name"] # None
  /\ "price" \in DOMAIN body /\ body["price"] # None /\ body["price"][1] > 0
  /\ ("in_stock" \in DOMAIN body => body["in_stock"] # None)

\* ProductSchema(...).dict(): every field, defaults filled in
\* (ProductSchemaDictNoDefault leaves in_stock null when it is not sent).
ProductSchemaDictNoDefault(body) ==
  [f \in Fields |-> IF f \in DOMAIN body THEN body[f] ELSE None]

ProductSchemaDict(body) ==
  [f \in Fields |->
     IF f \in DOMAIN body THEN body[f]
     ELSE IF f = "in_stock" THEN <<TRUE>> ELSE None]

\* ProductOutSchema, the response_model of the routes that return a product:
\* the fields of ProductSchema, validated again on the way out.
ProductOutSchema(product) ==
  /\ product["name"] # None
  /\ product["price"] # None /\ product["price"][1] > 0
  /\ product["in_stock"] # None

\* ProductUpdateSchema: four Optional fields, no constraint on any of them.
ProductUpdateSchema(body) == TRUE

\* ProductUpdateSchema(...).dict(exclude_unset=True): the fields that were sent.
ProductUpdateDict(body) == [f \in (DOMAIN body) \cap Fields |-> body[f]]

(***************************************************************************)
(* The collection: db_products maps an ObjectId to its document.           *)
(***************************************************************************)

\* find_one({"_id": oid}): <<document>> or None.
find_one(db, oid) == IF oid \in DOMAIN db THEN <<db[oid]>> ELSE None

\* insert_one(product_data): the collection with the document under a new _id.
insert_one(db, oid, product_data) ==
  [o \in (DOMAIN db) \cup {oid} |->
     IF o = oid
       THEN [k \in (DOMAIN product_data) \cup {"_id"} |->
               IF k = "_id" THEN oid ELSE product_data[k]]
       ELSE db[o]]

\* The _id insert_one gives the document: the driver generates every ObjectId
\* once (ReusedObjectId hands a deleted document's _id out again).
ReusedObjectId(db, counter) ==
  IF \E n \in 1..counter : n \notin DOMAIN db
    THEN CHOOSE n \in 1..counter : n \notin DOMAIN db /\ \A m \in 1..(n-1) : m \in DOMAIN db
    ELSE counter + 1

NewObjectId(db, counter) == counter + 1

\* update_one({"_id": oid}, {"$set": data}): the matched document with the
\* keys of data overwritten; nothing when no document matches
\* (ReplaceDocument stores data in place of the document).
ReplaceDocument(db, oid, data) ==
  IF oid \in DOMAIN db
    THEN [db EXCEPT ![oid] =
            [k \in (DOMAIN data) \cup {"_id"} |-> IF k = "_id" THEN oid ELSE data[k]]]
    ELSE db

update_one(db, oid, data) ==
  IF oid \in DOMAIN db
    THEN [db EXCEPT ![oid] =
            [k \in (DOMAIN @) \cup (DOMAIN data) |->
               IF k \in DOMAIN data THEN data[k] ELSE @[k]]]
    ELSE db

\* bool(UpdateResult): an object without __bool__ or __len__ is always true.
truthy_result(db, oid) == TRUE

\* delete_one({"_id": oid}) (DeleteNothing leaves the document in place).
DeleteNothing(db, oid) == db

delete_one(db, oid) == [o \in (DOMAIN db) \ {oid} |-> db[o]]

(***************************************************************************)
(* app/crud.py                                                             *)
(***************************************************************************)

product_helper(product) ==
  [id          |-> str(product["_id"]),
   name        |-> product["name"],
   description |-> get(product, "description"),
   price       |-> product["price"],
   in_stock    |-> product["in_stock"]]

\* Position of a name in MongoDB's ascending order: null sorts before every
\* string, strings sort in binary order.
NameOrder == <<"apple", "banana">>

NameRank(name) ==
  IF name = None THEN 0 ELSE CHOOSE i \in DOMAIN NameOrder : NameOrder[i] = name[1]

\* The orders in which find().sort("name", 1) may yield the documents:
\* ascending by name, documents with equal names in any order
\* (SortDescending is sort("name", -1)).
Orderings(S) ==
  {q \in [1..Cardinality(S) -> S] : \A i, j \in DOMAIN q : i # j => q[i] # q[j]}

SortDescending(db) ==
  {q \in Orderings(DOMAIN db) :
     \A i, j \in DOMAIN q :
       i < j => NameRank(db[q[i]]["name"]) >= NameRank(db[q[j]]["name"])}

sort_name_ascending(db) ==
  {q \in Orderings(DOMAIN db) :
     \A i, j \in DOMAIN q :
       i < j => NameRank(db[q[i]]["name"]) <= NameRank(db[q[j]]["name"])}

\* retrieve_products(): the lists it may return.
retrieve_products(db) ==
  {[i \in DOMAIN q |-> product_helper(db[q[i]])] : q \in sort_name_ascending(db)}

\* The result of a crud call: raised is TRUE where ObjectId(id) raises, ret is
\* the returned value (None where it raises) and db the collection afterwards.
retrieve_product(db, id) ==
  LET oid == ObjectId(id) IN
  IF oid = None THEN [raised |-> TRUE, ret |-> None, db |-> db]
  ELSE LET product == find_one(db, oid[1]) IN
       [raised |-> FALSE,
        ret    |-> IF product # None THEN <<product_helper(product[1])>> ELSE None,
        db     |-> db]

add_product(db, counter, product_data) ==
  LET inserted_id == NewObjectId(db, counter)
      after       == insert_one(db, inserted_id, product_data)
      created     == find_one(after, inserted_id)
  IN  [raised |-> FALSE, ret |-> <<product_helper(created[1])>>, db |-> after]

update_product(db, id, data) ==
  IF Cardinality(DOMAIN data) < 1 THEN [raised |-> FALSE, ret |-> <<FALSE>>, db |-> db]
  ELSE LET oid == ObjectId(id) IN
       IF oid = None THEN [raised |-> TRUE, ret |-> None, db |-> db]
       ELSE LET product == find_one(db, oid[1]) IN
            IF product # None
              THEN LET updated == truthy_result(db, oid[1]) IN
                   IF updated
                     THEN [raised |-> FALSE, ret |-> <<TRUE>>,
                           db |-> update_one(db, oid[1], data)]
                     ELSE [raised |-> FALSE, ret |-> <<FALSE>>,
                           db |-> update_one(db, oid[1], data)]
              ELSE [raised |-> FALSE, ret |-> <<FALSE>>, db |-> db]

delete_product(db, id) ==
  LET oid == ObjectId(id) IN
  IF oid = None THEN [raised |-> TRUE, ret |-> None, db |-> db]
  ELSE LET product == find_one(db, oid[1]) IN
       IF product # None
         THEN [raised |-> FALSE, ret |-> <<TRUE>>, db |-> delete_one(db, oid[1])]
         ELSE [raised |-> FALSE, ret |-> <<FALSE>>, db |-> db]

(***************************************************************************)
(* Request bodies                                                          *)
(***************************************************************************)

\* Bodies of POST /products/: two valid ones (one relying on the defaults,
\* one giving every field) and bodies ProductSchema rejects.
CreateBodies ==
  { [name |-> <<"apple">>, price |-> <<5>>],
    [name |-> <<"banana">>, description |-> <<"d">>, price |-> <<9>>,
     in_stock |-> <<FALSE>>],
    [name |-> <<"apple">>, price |-> <<0>>],
    [name |-> <<"banana">>, price |-> <<-1>>],
    [price |-> <<5>>] }

\* Bodies of PUT /products/{id}: every choice of sent fields among these values
\* (a null name, a new price, a price that is not positive).
UpdateNames == {None}

UpdatePrices == {<<9>>, <<0>>}

UpdateBodies ==
  {[f \in D |-> IF f = "name" THEN n ELSE p] :
     D \in SUBSET {"name", "price"}, n \in UpdateNames, p \in UpdatePrices}

(***************************************************************************)
(* app/routers/products.py, one request at a time                          *)
(***************************************************************************)

Response(op, id, body, status, ret) ==
  [op |-> op, id |-> id, body |-> body, status |-> status, ret |-> ret]

NoBody == [f \in {} |-> None]

\* The requests in flight in SpecConc: two asyncio tasks of the server.
Clients == {"c1", "c2"}

\* A task: the crud call it runs, its arguments, the await it is suspended at
\* (pc), the value it returned, and whether another request that ran during
\* it has already been answered.
Task(op, id, data, pc, ret, overlapped) ==
  [op |-> op, id |-> id, data |-> data, pc |-> pc, ret |-> ret,
   overlapped |-> overlapped]

Idle == Task("idle", "", NoBody, "idle", None, FALSE)

Init ==
  /\ db_products = [o \in {} |-> None]
  /\ oid_counter = 0
  /\ response = Response("start", "", NoBody, 0, None)
  /\ tasks = [c \in Clients |-> Idle]

get_products ==
  /\ \E products \in retrieve_products(db_products) :
       response' = Response("get_products", "", NoBody,
                            IF \A i \in DOMAIN products : ProductOutSchema(products[i])
                              THEN 200 ELSE 500,
                            <<products>>)
  /\ UNCHANGED <<db_products, oid_counter, tasks>>

get_product(id) ==
  LET r == retrieve_product(db_products, id) IN
  /\ response' = Response("get_product", id, NoBody,
                          IF r.raised THEN 500
                          ELSE IF r.ret = None THEN 404
                          ELSE IF ProductOutSchema(r.ret[1]) THEN 200 ELSE 500,
                          r.ret)
  /\ UNCHANGED <<db_products, oid_counter, tasks>>

create_product(body) ==
  IF ~ProductSchema(body)
    THEN /\ response' = Response("create_product", "", body, 422, None)
         /\ UNCHANGED <<db_products, oid_counter, tasks>>
    ELSE /\ oid_counter < MaxProducts
         /\ LET r == add_product(db_products, oid_counter, ProductSchemaDict(body)) IN
            /\ db_products' = r.db
            /\ oid_counter' = oid_counter + 1
            /\ response' = Response("create_product", "", body, 201, r.ret)
         /\ UNCHANGED tasks

update_existing_product(id, body) ==
  IF ~ProductUpdateSchema(body)
    THEN /\ response' = Response("update_existing_product", id, body, 422, None)
         /\ UNCHANGED <<db_products, oid_counter, tasks>>
    ELSE LET r == update_product(db_products, id, ProductUpdateDict(body)) IN
         /\ db_products' = r.db
         /\ response' = Response("update_existing_product", id, body,
                                 IF r.raised THEN 500 ELSE 200, r.ret)
         /\ UNCHANGED <<oid_counter, tasks>>

delete_existing_product(id) ==
  LET r == delete_product(db_products, id) IN
  /\ db_products' = r.db
  /\ response' = Response("delete_existing_product", id, NoBody,
                          IF r.raised THEN 500 ELSE 200, r.ret)
  /\ UNCHANGED <<oid_counter, tasks>>

Next ==
  \/ get_products
  \/ \E id \in IdStrings : get_product(id)
  \/ \E body \in CreateBodies : create_product(body)
  \/ \E id \in IdStrings, body \in UpdateBodies : update_existing_product(id, body)
  \/ \E id \in IdStrings : delete_existing_product(id)

Spec == Init /\ [][Next]_vars

(***************************************************************************)
(* app/crud.py with two requests in flight.  A coroutine runs without      *)
(* interruption from one await to the next, and each find_one, update_one  *)
(* and delete_one is atomic in the database, so a step is the code from    *)
(* one awaited call to the next.                                           *)
(***************************************************************************)

\* The collection at server start: what two earlier valid POSTs left in it.
InitConc ==
  /\ \E b1, b2 \in {b \in CreateBodies : ProductSchema(b)} :
       db_products =
         add_product(add_product([o \in {} |-> None], 0, ProductSchemaDict(b1)).db,
                     1, ProductSchemaDict(b2)).db
  /\ oid_counter = 2
  /\ response = Response("start", "", NoBody, 0, None)
  /\ tasks = [c \in Clients |-> Idle]

\* update_product up to its first suspension: lines 75-78, find_one answered.
call_update_product(c, id, body) ==
  /\ tasks[c].pc = "idle"
  /\ ProductUpdateSchema(body)
  /\ LET data == ProductUpdateDict(body)
         oid  == ObjectId(id)
         done == IF Cardinality(DOMAIN data) < 1
                   THEN Task("update_product", id, data, "done", <<FALSE>>, FALSE)
                 ELSE IF oid = None
                   THEN Task("update_product", id, data, "raised", None, FALSE)
                 ELSE IF find_one(db_products, oid[1]) # None
                   THEN Task("update_product", id, data, "update_one", None, FALSE)
                 ELSE Task("update_product", id, data, "done", <<FALSE>>, FALSE)
     IN  tasks' = [tasks EXCEPT ![c] = done]
  /\ UNCHANGED <<db_products, oid_counter, response>>

\* update_product, lines 79-81: update_one answered, `if updated: return True`.
await_update_one(c) ==
  /\ tasks[c].pc = "update_one"
  /\ LET oid     == ObjectId(tasks[c].id)[1]
         updated == truthy_result(db_products, oid)
     IN  /\ db_products' = update_one(db_products, oid, tasks[c].data)
         /\ tasks' = [tasks EXCEPT ![c].pc = "done",
                                   ![c].ret = IF updated THEN <<TRUE>> ELSE <<FALSE>>]
  /\ UNCHANGED <<oid_counter, response>>

\* delete_product up to its first suspension: lines 85-86, find_one answered.
call_delete_product(c, id) ==
  /\ tasks[c].pc = "idle"
  /\ LET oid  == ObjectId(id)
         done == IF oid = None
                   THEN Task("delete_product", id, NoBody, "raised", None, FALSE)
                 ELSE IF find_one(db_products, oid[1]) # None
                   THEN Task("delete_product", id, NoBody, "delete_one", None, FALSE)
                 ELSE Task("delete_product", id, NoBody, "done", <<FALSE>>, FALSE)
     IN  tasks' = [tasks EXCEPT ![c] = done]
  /\ UNCHANGED <<db_products, oid_counter, response>>

\* delete_product, lines 87-88: delete_one answered, return True.
await_delete_one(c) ==
  /\ tasks[c].pc = "delete_one"
  /\ db_products' = delete_one(db_products, ObjectId(tasks[c].id)[1])
  /\ tasks' = [tasks EXCEPT ![c].pc = "done", ![c].ret = <<TRUE>>]
  /\ UNCHANGED oid_counter
  /\ UNCHANGED response

\* The route answers (200 with the returned bool, 500 where the call raised)
\* and its task ends.  The requests still in flight have now run beside an
\* answered one.
send_response(c) ==
  /\ tasks[c].pc \in {"done", "raised"}
  /\ tasks' = [d \in Clients |->
                 IF d = c THEN Idle
                 ELSE IF tasks[d].pc = "idle" THEN tasks[d]
                 ELSE [tasks[d] EXCEPT !.overlapped = TRUE]]
  /\ UNCHANGED <<db_products, oid_counter, response>>

\* The ids of the concurrent requests: the two products and a malformed id.
ConcIds == {str(o) : o \in 1..2} \cup Malformed

NextConc ==
  \/ \E c \in Clients, id \in ConcIds, body \in UpdateBodies :
       call_update_product(c, id, body)
  \/ \E c \in Clients : await_update_one(c)
  \/ \E c \in Clients, id \in ConcIds : call_delete_product(c, id)
  \/ \E c \in Clients : await_delete_one(c)
  \/ \E c \in Clients : send_response(c)

SpecConc == InitConc /\ [][NextConc]_vars

(***************************************************************************)
(* Properties of Spec                                                      *)
(***************************************************************************)

\* The ObjectIds handed out so far whose document is gone: deleted products.
Deleted(db, counter) == {o \in 1..counter : o \notin DOMAIN db}

\* No document with the id string exists in the collection.
NoRecord(db, id) == ObjectId(id) = None \/ ObjectId(id)[1] \notin DOMAIN db


\* C1: every persisted product has price > 0, whatever accepted creates,
\* updates and deletes came before.
C1_PersistedPricePositive ==
  \A o \in DOMAIN db_products :
    db_products[o]["price"] # None /\ db_products[o]["price"][1] > 0

\* C2: an id that does not parse as an ObjectId is answered like a not-found
\* id: GET gives 404, update and delete return False, the store is unchanged.
C2_UnparseableIdIsNotFound ==
  [][LET r == response' IN
     r.id \in Malformed =>
       /\ r.op = "get_product" => r.status = 404
       /\ r.op \in {"update_existing_product", "delete_existing_product"} =>
            r.status = 200 /\ r.ret = <<FALSE>>
       /\ db_products' = db_products]_vars

\* C3: every product that retrieve_product or retrieve_products returns has a
\* non-null name, a non-null price and a non-null in_stock.
Complete(product) ==
  product.name # None /\ product.price # None /\ product.in_stock # None

C3_ReturnedRecordsComplete ==
  /\ response.op = "get_product" /\ response.ret # None => Complete(response.ret[1])
  /\ response.op = "get_products" =>
       \A i \in DOMAIN response.ret[1] : Complete(response.ret[1][i])

\* C4: an update of an existing record with a non-empty body returns True,
\* overwrites exactly the sent fields of that record and leaves its other
\* fields, its _id and every other record as they were.
C4_UpdateOverwritesSentFields ==
  [][LET r == response' IN
     (/\ r.op = "update_existing_product"
      /\ ~NoRecord(db_products, r.id)
      /\ DOMAIN r.body # {}) =>
       /\ r.status = 200 /\ r.ret = <<TRUE>>
       /\ DOMAIN db_products' = DOMAIN db_products
       /\ \A o \in DOMAIN db_products :
            /\ DOMAIN db_products'[o] = DOMAIN db_products[o]
            /\ \A k \in DOMAIN db_products[o] :
                 db_products'[o][k] =
                   IF o = ObjectId(r.id)[1] /\ k \in DOMAIN r.body
                     THEN r.body[k] ELSE db_products[o][k]]_vars

\* C4 witness: an update with a non-empty body has returned True while another
\* record was in the store, and the sent price is the record's price.
C4_Witness ==
  /\ response.op = "update_existing_product" /\ response.ret = <<TRUE>>
  /\ DOMAIN response.body = {"price"}
  /\ Cardinality(DOMAIN db_products) = 2
  /\ db_products[ObjectId(response.id)[1]]["price"] = response.body["price"]
  /\ db_products[ObjectId(response.id)[1]]["name"] = <<"banana">>

\* C5: an update with an empty body, or with an id no record has, returns
\* False and leaves the store unchanged.
C5_FailedUpdateReturnsFalse ==
  [][LET r == response' IN
     (/\ r.op = "update_existing_product"
      /\ (DOMAIN r.body = {} \/ NoRecord(db_products, r.id))) =>
       /\ r.status = 200 /\ r.ret = <<FALSE>>
       /\ db_products' = db_products]_vars

\* C6: deleting an existing id returns True and removes that record only;
\* a deleted id stays deleted whatever is created later, and every later get
\* on it is a 404 and every later update or delete on it returns False.
C6_DeletedIdStaysInvalid ==
  [][LET r == response' IN
     /\ (r.op = "delete_existing_product" /\ ~NoRecord(db_products, r.id)) =>
          /\ r.status = 200 /\ r.ret = <<TRUE>>
          /\ DOMAIN db_products' = (DOMAIN db_products) \ {ObjectId(r.id)[1]}
          /\ \A o \in DOMAIN db_products' : db_products'[o] = db_products[o]
     /\ \A o \in Deleted(db_products, oid_counter) :
          /\ o \notin DOMAIN db_products'
          /\ r.id = str(o) =>
               /\ r.op = "get_product" => r.status = 404 /\ r.ret = None
               /\ r.op \in {"update_existing_product", "delete_existing_product"} =>
                    r.status = 200 /\ r.ret = <<FALSE>>]_vars

\* C6 witness: the first product is deleted, the second one is in the store,
\* and a get on the deleted id has answered 404.
C6_Witness ==
  /\ 1 \in Deleted(db_products, oid_counter)
  /\ 2 \in DOMAIN db_products
  /\ response.op = "get_product" /\ response.id = str(1) /\ response.status = 404

\* C7: a valid create returns the sent fields (in_stock true and description
\* null when not sent) under a non-empty id that no earlier record had, and a
\* retrieve_product on that id right afterwards returns the same record.
C7_CreateReturnsInputUnderFreshId ==
  (response.op = "create_product" /\ response.status # 422) =>
    /\ response.status = 201 /\ response.ret # None
    /\ LET created == response.ret[1] IN
       /\ \A f \in Fields :
            created[f] = IF f \in DOMAIN response.body THEN response.body[f]
                         ELSE IF f = "in_stock" THEN <<TRUE>> ELSE None
       /\ created.id # ""
       /\ created.id \notin {str(o) : o \in 1..(oid_counter - 1)}
       /\ retrieve_product(db_products, created.id).ret = <<created>>

\* C7 witness: a second product was created from a body without in_stock and
\* description, after the first one had been deleted.
C7_Witness ==
  /\ response.op = "create_product" /\ response.status = 201
  /\ DOMAIN response.body = {"name", "price"}
  /\ oid_counter = 2 /\ 1 \in Deleted(db_products, oid_counter)

\* C8: retrieve_products returns the records of the store, each once, as
\* product_helper maps them, in ascending order of name; the empty store
\* gives the empty list and no error.
C8_ListIsStoreSortedByName ==
  response.op = "get_products" =>
    LET products == response.ret[1] IN
    /\ Len(products) = Cardinality(DOMAIN db_products)
    /\ {products[i] : i \in DOMAIN products} =
         {product_helper(db_products[o]) : o \in DOMAIN db_products}
    /\ \A i, j \in DOMAIN products :
         i < j => NameRank(products[i].name) <= NameRank(products[j].name)
    /\ DOMAIN db_products = {} => response.status = 200 /\ products = <<>>

\* C8 witness: banana was created before apple and the list has apple first.
C8_Witness ==
  /\ response.op = "get_products" /\ Len(response.ret[1]) = 2
  /\ response.ret[1][1].id = str(2) /\ response.ret[1][1].name = <<"apple">>
  /\ response.ret[1][2].id = str(1) /\ response.ret[1][2].name = <<"banana">>

(***************************************************************************)
(* Properties of SpecConc                                                  *)
(***************************************************************************)

\* Two updates of the same record that ran beside each other and beside no
\* other answered request, both past their update_one, the record still there.
ConcurrentUpdates(c, d) ==
  /\ c # d
  /\ tasks[c].op = "update_product" /\ tasks[d].op = "update_product"
  /\ tasks[c].pc = "done" /\ tasks[d].pc = "done"
  /\ tasks[c].ret = <<TRUE>> /\ tasks[d].ret = <<TRUE>>
  /\ tasks[c].id = tasks[d].id
  /\ ~tasks[c].overlapped /\ ~tasks[d].overlapped
  /\ ~NoRecord(db_products, tasks[c].id)

C9_Outcome ==
  \A c, d \in Clients :
    ConcurrentUpdates(c, d) =>
      LET product == db_products[ObjectId(tasks[c].id)[1]] IN
      \A f \in Fields :
        /\ f \in DOMAIN product
        /\ f \in DOMAIN tasks[c].data =>
             IF f \in DOMAIN tasks[d].data
               THEN product[f] \in {tasks[c].data[f], tasks[d].data[f]}
               ELSE product[f] = tasks[c].data[f]

C9_Frame ==
  \A c \in Clients :
    (tasks[c].pc = "update_one" /\ tasks'[c].pc # "update_one") =>
      /\ DOMAIN db_products' = DOMAIN db_products
      /\ \A o \in DOMAIN db_products :
           /\ DOMAIN db_products'[o] = DOMAIN db_products[o]
           /\ \A k \in DOMAIN db_products[o] :
                (o # ObjectId(tasks[c].id)[1] \/ k \notin DOMAIN tasks[c].data) =>
                  db_products'[o][k] = db_products[o][k]

\* C9: after two concurrent updates of the same existing id, in any
\* interleaving, a field both sent has the value one of them sent, a field
\* only one sent has the value it sent, and the update_one of a request
\* changes no field the request did not send.
C9_LastWriteWinsPerField == []C9_Outcome /\ [][C9_Frame]_vars

\* C9 witness: two concurrent updates of one record are both done, they sent
\* different prices, only one of them sent a name, and the record has the
\* price of one and the name of the other.
C9_Witness ==
  \E c, d \in Clients :
    /\ ConcurrentUpdates(c, d)
    /\ DOMAIN tasks[c].data = {"price"} /\ DOMAIN tasks[d].data = {"name", "price"}
    /\ tasks[c].data["price"] # tasks[d].data["price"]
    /\ db_products[ObjectId(tasks[c].id)[1]]["price"] = tasks[c].data["price"]
    /\ db_products[ObjectId(tasks[c].id)[1]]["name"] = tasks[d].data["name"]

\* C10: update_product and delete_product return True only when their own
\* update_one or delete_one found the record still in the store.
C10_TrueOnlyIfWriteMatched ==
  [][\A c \in Clients :
       (/\ tasks[c].pc \in {"update_one", "delete_one"}
        /\ tasks'[c].pc = "done"
        /\ tasks'[c].ret = <<TRUE>>) =>
         ~NoRecord(db_products, tasks[c].id)]_vars

====
